---------------------------- MODULE Spec2Model ----------------------------
(***************************************************************************)
(* A model of partsdb.py: the Part record and its file name, the Mouser    *)
(* response parser, the one-shot lookup flow and the interactive inventory *)
(* flow, over a database directory of JSON files.                          *)
(*                                                                         *)
(* Conventions.  A Python str that the program inspects character by       *)
(* character (a part number, a line typed at a prompt) is a sequence of    *)
(* Unicode code points, e.g. <<65, 47, 49>> is 'A/1'.  Every other Python  *)
(* value is a tagged record: None, PyStr(s), PyInt(n).  The network and    *)
(* the file system are taken to work: the search answers with a response   *)
(* of the documented shape and .database/ exists and is writable.          *)
(***************************************************************************)
EXTENDS Integers, Sequences, FiniteSets, TLC

VARIABLES
    pc,        \* where the process is: "shell" (not running), blocked in
               \* http.request at "LookupSearch" (l.118) or "Search" (l.140),
               \* in lookup at "LookupList" (l.121) or "LookupInsert" (l.125),
               \* or in input() at "Prompt" (l.137), "Select" (l.157), "Count" (l.173)
    environ,   \* os.environ of the running process: is MOUSER_API_KEY set
    searcher,  \* the flow's local `searcher`: NoInstance or a MouserPartSearch
    parts,     \* inventory's local `parts`
    sel,       \* inventory's local `sel`
    part,      \* inventory's local `part`
    count,     \* inventory's local `count`
    db,        \* the files of .database/: path |-> content
    io,        \* what the last step did: the line it read, the requests it
               \* sent, the files it wrote, the messages it printed
    exc,       \* the exception that ended the last invocation, or "none"
    args,      \* the command line of the last invocation
    lastSaved, \* history: path |-> the Part most recently saved there
    sanIn,     \* the part number last given to default_filename
    sanOut,    \* the file name it returned
    parseIn,   \* the response last given to MouserPartParser.parse
    parseOut   \* the list of Parts it returned

vars == <<pc, environ, searcher, parts, sel, part, count, db, io, exc, args,
          lastSaved, sanIn, sanOut, parseIn, parseOut>>

flowVars == <<pc, environ, searcher, parts, sel, part, count, db, io, exc, args,
              lastSaved>>

pureVars == <<sanIn, sanOut, parseIn, parseOut>>

--------------------------------------------------------------------------
(* Bounds *)

\* the longest Parts array a response carries
MaxParts == 2

\* the largest count typed at the count prompt
MaxCount == 2

\* the longest part number given to default_filename on its own
MaxNameLen == 3

\* the longest Parts array given to the parser on its own
MaxRespLen == 2

--------------------------------------------------------------------------
(* Python values *)

None == [t |-> "None"]

PyStr(s) == [t |-> "str", v |-> s]

PyInt(n) == [t |-> "int", v |-> n]

\* bool(v) of a JSON scalar: None and '' are falsy, every other str is truthy
Truthy(v) == v # None /\ v # PyStr("")

\* Python's `a or b`
PyOr(a, b) == IF Truthy(a) THEN a ELSE b

\* seq[i] with Python's 0-based index, negative indices counting from the end
PyIndex(seq, i) == IF i >= 0 THEN seq[i + 1] ELSE seq[Len(seq) + i + 1]

--------------------------------------------------------------------------
(* Characters: str.isalnum on the code points 0..255 *)

IsAsciiAlnum(c) == (c >= 48 /\ c <= 57) \/ (c >= 65 /\ c <= 90) \/ (c >= 97 /\ c <= 122)

\* the Latin-1 code points above 127 for which str.isalnum() is True:
\* the letters, the ordinal indicators, micro, the superscript digits and
\* the vulgar fractions
IsLatin1Alnum(c) ==
    \/ c \in {170, 181, 186}
    \/ c \in {178, 179, 185}
    \/ c \in {188, 189, 190}
    \/ (c >= 192 /\ c <= 214)
    \/ (c >= 216 /\ c <= 246)
    \/ (c >= 248 /\ c <= 255)

IsAlnum(c) == IsAsciiAlnum(c) \/ IsLatin1Alnum(c)

\* c in "-_.() "
InExtra(c) == c \in {45, 95, 46, 40, 41, 32}

\* the filter without its list of extra characters
KeepsAlnumOnly(c) == IsAlnum(c)

Keeps(c) == IsAlnum(c) \/ InExtra(c)

RECURSIVE sanitize_filename(_)
sanitize_filename(s) ==
    IF s = <<>> THEN <<>>
    ELSE (IF Keeps(Head(s)) THEN <<Head(s)>> ELSE <<>>) \o sanitize_filename(Tail(s))

--------------------------------------------------------------------------
(* Part *)

NewPart(partNum) ==
    [partNum      |-> partNum,
     category     |-> PyStr("uncategorized"),
     manufacturer |-> PyStr("unknown"),
     description  |-> None,
     imageUrl     |-> None,
     datasheetUrl |-> None,
     productUrl   |-> None,
     count        |-> PyInt(0)]

\* '.database/{}.json'.format(...): the path as its three pieces
default_filename(p) ==
    [dir |-> ".database/", stem |-> sanitize_filename(p.partNum), ext |-> ".json"]

\* json.dumps(self.__dict__, indent=4): the object's members in the order
\* __init__ assigned them
JsonDumps(p) ==
    << <<"partNum", PyStr(p.partNum)>>,
       <<"category", p.category>>,
       <<"manufacturer", p.manufacturer>>,
       <<"description", p.description>>,
       <<"imageUrl", p.imageUrl>>,
       <<"datasheetUrl", p.datasheetUrl>>,
       <<"productUrl", p.productUrl>>,
       <<"count", p.count>> >>

\* open(filename, 'w') then write: the file is created or truncated
WriteFile(files, filename, text) ==
    [f \in DOMAIN files \cup {filename} |-> IF f = filename THEN text ELSE files[f]]

\* what open(filename, 'w') does to the directory: create or truncate
OpenForWrite(files, filename) ==
    [path |-> filename, truncated |-> filename \in DOMAIN files]

\* save() that leaves an existing file as it is
SaveKeepsExisting(files, p) ==
    IF default_filename(p) \in DOMAIN files
    THEN files
    ELSE WriteFile(files, default_filename(p), JsonDumps(p))

\* Part.save() with no filename
Save(files, p) == WriteFile(files, default_filename(p), JsonDumps(p))

\* part.to_string(index)
to_string(p, index) == [index |-> index, partNum |-> p.partNum, description |-> p.description]

--------------------------------------------------------------------------
(* MouserPartParser *)

\* the loop body with l.108 and l.109 the other way round: the image falls
\* back to the datasheet URL just read
ParseEntryImageAfterDatasheet(jpart) ==
    LET p0 == NewPart(jpart.ManufacturerPartNumber)
        p1 == [p0 EXCEPT !.category = PyOr(jpart.Category, p0.category)]
        p2 == [p1 EXCEPT !.manufacturer = PyOr(jpart.Manufacturer, p1.manufacturer)]
        p3 == [p2 EXCEPT !.description = PyOr(jpart.Description, p2.description)]
        p4 == [p3 EXCEPT !.datasheetUrl = PyOr(jpart.DataSheetUrl, p3.datasheetUrl)]
        p5 == [p4 EXCEPT !.imageUrl = PyOr(jpart.ImagePath, p4.datasheetUrl)]
        p6 == [p5 EXCEPT !.productUrl = PyOr(jpart.ProductDetailUrl, p5.productUrl)]
    IN  p6

\* one pass of the loop body of parse
ParseEntry(jpart) ==
    LET p0 == NewPart(jpart.ManufacturerPartNumber)
        p1 == [p0 EXCEPT !.category = PyOr(jpart.Category, p0.category)]
        p2 == [p1 EXCEPT !.manufacturer = PyOr(jpart.Manufacturer, p1.manufacturer)]
        p3 == [p2 EXCEPT !.description = PyOr(jpart.Description, p2.description)]
        p4 == [p3 EXCEPT !.imageUrl = PyOr(jpart.ImagePath, p3.datasheetUrl)]
        p5 == [p4 EXCEPT !.datasheetUrl = PyOr(jpart.DataSheetUrl, p4.datasheetUrl)]
        p6 == [p5 EXCEPT !.productUrl = PyOr(jpart.ProductDetailUrl, p5.productUrl)]
    IN  p6

RECURSIVE ParseLoop(_, _)
ParseLoop(jparts, acc) ==
    IF jparts = <<>> THEN acc
    ELSE ParseLoop(Tail(jparts), Append(acc, ParseEntry(Head(jparts))))

\* parse(obj)
Parse(obj) == ParseLoop(obj.SearchResults.Parts, <<>>)

--------------------------------------------------------------------------
(* Calls that may raise *)

Return(v) == [raised |-> FALSE, value |-> v]

Raise(e) == [raised |-> TRUE, exc |-> e]

\* Config.mouser_api_key
mouser_api_key(env) ==
    IF "MOUSER_API_KEY" \in DOMAIN env
    THEN Return(env["MOUSER_API_KEY"])
    ELSE Raise("RuntimeError: Mouser API key not provided")

\* str.lower on ASCII letters
Lower(s) == [i \in 1..Len(s) |-> IF s[i] >= 65 /\ s[i] <= 90 THEN s[i] + 32 ELSE s[i]]

\* 'mouser'
StrMouser == <<109, 111, 117, 115, 101, 114>>

\* a constructor that reads the key with os.environ.get and never raises
MouserPartSearchLenient(env) ==
    Return([cls |-> "MouserPartSearch",
            api_key |-> IF "MOUSER_API_KEY" \in DOMAIN env
                        THEN env["MOUSER_API_KEY"] ELSE None])

\* MouserPartSearch.__init__
MouserPartSearch(env) ==
    LET k == mouser_api_key(env)
    IN  IF k.raised THEN k
        ELSE Return([cls |-> "MouserPartSearch", api_key |-> k.value])

\* PartSearch.instantiate
PartSearch_instantiate(a, env) ==
    IF Lower(a) = StrMouser
    THEN MouserPartSearch(env)
    ELSE Raise("RuntimeError: unsupported API")

\* MouserPartParser.__init__
MouserPartParser(env) ==
    LET k == mouser_api_key(env)
    IN  IF k.raised THEN k
        ELSE Return([cls |-> "MouserPartParser", api_key |-> k.value])

\* PartParser.instantiate
PartParser_instantiate(a, env) ==
    IF Lower(a) = StrMouser
    THEN MouserPartParser(env)
    ELSE Raise("RuntimeError: unsupported API")

\* the POST that MouserPartSearch.search sends
Request(s, query) == [keyword |-> query, apiKey |-> s.api_key]

--------------------------------------------------------------------------
(* int(str): surrounding blanks, an optional sign, one or more digits *)

IsBlank(c) == c \in {32, 9}

IsDigit(c) == c >= 48 /\ c <= 57

RECURSIVE LStrip(_)
LStrip(s) == IF s # <<>> /\ IsBlank(Head(s)) THEN LStrip(Tail(s)) ELSE s

RECURSIVE RStrip(_)
RStrip(s) ==
    IF s # <<>> /\ IsBlank(s[Len(s)]) THEN RStrip(SubSeq(s, 1, Len(s) - 1)) ELSE s

RECURSIVE DigitsValue(_, _)
DigitsValue(s, acc) ==
    IF s = <<>> THEN acc ELSE DigitsValue(Tail(s), 10 * acc + (Head(s) - 48))

PyIntParse(line) ==
    LET t      == RStrip(LStrip(line))
        signed == t # <<>> /\ Head(t) \in {43, 45}
        digits == IF signed THEN Tail(t) ELSE t
        ok     == digits # <<>> /\ \A i \in 1..Len(digits) : IsDigit(digits[i])
    IN  IF ~ok THEN Raise("ValueError")
        ELSE IF signed /\ Head(t) = 45
             THEN Return(0 - DigitsValue(digits, 0))
             ELSE Return(DigitsValue(digits, 0))

\* str(n) for n >= 0
RECURSIVE Decimal(_)
Decimal(n) == IF n < 10 THEN <<48 + n>> ELSE Append(Decimal(n \div 10), 48 + (n % 10))

\* 'q'
StrQ == <<113>>

--------------------------------------------------------------------------
(* The environment of the flows: command lines, responses, typed lines *)

\* os.environ without and with the credential
EnvNoKey == [n \in {} |-> PyStr("secret")]

EnvWithKey == [n \in {"MOUSER_API_KEY"} |-> PyStr("secret")]

Environs == {EnvNoKey, EnvWithKey}

\* --api: 'mouser', 'Mouser', 'digikey'
ApiNames ==
    {StrMouser,
     <<77, 111, 117, 115, 101, 114>>,
     <<100, 105, 103, 105, 107, 101, 121>>}

JPart(pn, cat, man, desc, img, ds, url) ==
    [ManufacturerPartNumber |-> pn, Category |-> cat, Manufacturer |-> man,
     Description |-> desc, ImagePath |-> img, DataSheetUrl |-> ds,
     ProductDetailUrl |-> url]

\* what the distributor lists: 'A/1' and 'A1' share a file name, 'B' does not
Catalogue ==
    {JPart(<<65, 47, 49>>, PyStr("Resistors"), PyStr("Yageo"), PyStr("10k"),
           None, PyStr("http://ds/a"), PyStr("http://p/a")),
     JPart(<<65, 49>>, None, PyStr(""), None, PyStr("http://img/a1"), None, None),
     JPart(<<66>>, PyStr(""), None, PyStr("cap"), PyStr(""), PyStr(""), PyStr("http://p/b"))}

SeqsUpTo(S, n) == UNION {[1..k -> S] : k \in 0..n}

Response(jparts) == [SearchResults |-> [Parts |-> jparts]]

Responses == {Response(js) : js \in SeqsUpTo(Catalogue, MaxParts)}

\* lines typed at any prompt: 'q', '', 'x', 'qq', '-', '1x', '-1', '+1', ' 1', '01'
CommonLines ==
    {StrQ, <<>>, <<120>>, <<113, 113>>, <<45>>, <<49, 120>>,
     <<45, 49>>, <<43, 49>>, <<32, 49>>, <<48, 49>>}

SelectLines == CommonLines \cup {Decimal(n) : n \in 0..(MaxParts + 1)}

CountLines == CommonLines \cup {Decimal(n) : n \in 0..MaxCount}

\* lookup's query argument: 'x', 'q'
LookupQueries == {<<120>>, StrQ}

\* lines typed at 'Part ID': 'x', 'q', '', 'qq'
Queries == {<<120>>, StrQ, <<>>, <<113, 113>>}

--------------------------------------------------------------------------
(* State of a process *)

NoInstance == [cls |-> "none"]

\* a call not made yet
Pending == [t |-> "pending"]

NoPart == [t |-> "unassigned"]

NoArgs == [command |-> "none"]

Msg(tag, arg) == [msg |-> tag, arg |-> arg]

Effects(line, requests, writes, printed) ==
    [line |-> line, requests |-> requests, writes |-> writes, printed |-> printed]

NoEffects == Effects(None, <<>>, <<>>, <<>>)

\* the loop `for p in parts: print(p.to_string(i)); i += 1`
Listing(ps) == [i \in 1..Len(ps) |-> Msg("item", to_string(ps[i], PyInt(i)))]

\* history of save(): the Part last saved at each path
Remember(h, p) ==
    [f \in DOMAIN h \cup {default_filename(p)} |->
        IF f = default_filename(p) THEN p ELSE h[f]]

\* the locals of inventory at a point where none of them is read again
\* before it is assigned (the top of the loop, or no process at all)
LocalsUnassigned ==
    /\ parts' = <<>>
    /\ sel' = 0
    /\ part' = NoPart
    /\ count' = 0

\* the process ends, normally (e = "none") or with an uncaught exception
Exit(e) ==
    /\ pc' = "shell"
    /\ searcher' = NoInstance
    /\ LocalsUnassigned
    /\ exc' = e

\* no process has run yet and .database/ is empty
InitFlow ==
    /\ pc = "shell"
    /\ environ = EnvNoKey
    /\ searcher = NoInstance
    /\ parts = <<>>
    /\ sel = 0
    /\ part = NoPart
    /\ count = 0
    /\ db = <<>>
    /\ io = NoEffects
    /\ exc = "none"
    /\ args = NoArgs
    /\ lastSaved = <<>>

Init ==
    /\ InitFlow
    /\ sanIn = <<>>
    /\ sanOut = Pending
    /\ parseIn = Response(<<>>)
    /\ parseOut = Pending

--------------------------------------------------------------------------
(* lookup *)

\* lookup that inserts the first part of any non-empty result
InsertActionFirst(insert, n) ==
    IF ~insert THEN "none"
    ELSE IF n = 0 THEN "nothing"
    ELSE "save"

\* l.125-131: what lookup does with n parsed parts
InsertAction(insert, n) ==
    IF ~insert THEN "none"
    ELSE IF n > 1 THEN "refuse"
    ELSE IF n = 0 THEN "nothing"
    ELSE "save"

\* l.116-118: lookup up to the point where it waits for the response
RunLookup ==
    /\ pc = "shell"
    /\ \E query \in LookupQueries, a \in ApiNames, exact \in BOOLEAN,
          insert \in BOOLEAN, env \in Environs :
        LET s == PartSearch_instantiate(a, env)
        IN  /\ args' = [command |-> "lookup", query |-> query, api |-> a,
                        exact |-> exact, insert |-> insert]
            /\ environ' = env
            /\ IF s.raised
               THEN /\ Exit(s.exc)
                    /\ io' = NoEffects
               ELSE /\ pc' = "LookupSearch"
                    /\ searcher' = s.value
                    /\ LocalsUnassigned
                    /\ exc' = "none"
                    /\ io' = Effects(None, <<Request(s.value, query)>>, <<>>, <<>>)
    /\ UNCHANGED <<db, lastSaved, pureVars>>

\* l.118-120: the response arrives and is parsed
LookupResponse ==
    /\ pc = "LookupSearch"
    /\ \E resp \in Responses :
        LET pr == PartParser_instantiate(args.api, environ)
        IN  IF pr.raised
            THEN /\ Exit(pr.exc)
                 /\ io' = NoEffects
            ELSE /\ pc' = "LookupList"
                 /\ parts' = Parse(resp)
                 /\ io' = NoEffects
                 /\ UNCHANGED <<searcher, sel, part, count, exc>>
    /\ UNCHANGED <<environ, args, db, lastSaved, pureVars>>

\* l.121-124: every part is printed with its index
LookupList ==
    /\ pc = "LookupList"
    /\ pc' = "LookupInsert"
    /\ io' = Effects(None, <<>>, <<>>, Listing(parts))
    /\ UNCHANGED <<searcher, parts, sel, part, count, exc>>
    /\ UNCHANGED <<environ, args, db, lastSaved, pureVars>>

\* l.125-131: insert, refuse or nothing; then lookup returns
LookupInsert ==
    /\ pc = "LookupInsert"
    /\ LET todo == InsertAction(args.insert, Len(parts))
       IN  /\ io' = CASE todo = "refuse" ->
                           Effects(None, <<>>, <<>>,
                                   <<Msg("Refusing to insert more than one part", None)>>)
                      [] todo = "nothing" ->
                           Effects(None, <<>>, <<>>,
                                   <<Msg("No parts were found, nothing to insert", None)>>)
                      [] todo = "save" ->
                           Effects(None, <<>>, <<OpenForWrite(db, default_filename(parts[1]))>>, <<>>)
                      [] OTHER -> NoEffects
           /\ db' = IF todo = "save" THEN Save(db, parts[1]) ELSE db
           /\ lastSaved' = IF todo = "save" THEN Remember(lastSaved, parts[1]) ELSE lastSaved
    /\ Exit("none")
    /\ UNCHANGED <<environ, args, pureVars>>

--------------------------------------------------------------------------
(* inventory *)

\* a dispatch that takes the first part of any non-empty result
DispatchFirst(n) == IF n = 0 THEN "Prompt" ELSE "Count"

\* l.144-149: where n parsed parts lead
Dispatch(n) ==
    IF n = 0 THEN "Prompt"
    ELSE IF n = 1 THEN "Count"
    ELSE "Select"

\* the selection loop with its lower limit off by one
SelRejectedBelowZero(s, n) == s < 0 \/ s > n

\* l.156: the selection loop goes round again
SelRejected(s, n) == s < 1 \/ s > n

\* l.171: the count loop goes round again
CountRejected(c) == c < 1

\* the assignment of l.180 left out
SetCountSkipped(p, c) == p

\* l.180: part.count = count
SetCount(p, c) == [p EXCEPT !.count = c]

\* l.133-137: inventory up to its first prompt
RunInventory ==
    /\ pc = "shell"
    /\ \E a \in ApiNames, env \in Environs :
        LET s == PartSearch_instantiate(a, env)
        IN  /\ args' = [command |-> "inventory", api |-> a]
            /\ environ' = env
            /\ io' = NoEffects
            /\ IF s.raised
               THEN Exit(s.exc)
               ELSE /\ pc' = "Prompt"
                    /\ searcher' = s.value
                    /\ LocalsUnassigned
                    /\ exc' = "none"
    /\ UNCHANGED <<db, lastSaved, pureVars>>

\* l.137-140: a line at 'Part ID', up to the point where the search waits
PromptInput ==
    /\ pc = "Prompt"
    /\ \E partid \in Queries :
        IF partid = StrQ
        THEN /\ Exit("none")
             /\ io' = Effects(PyStr(partid), <<>>, <<>>, <<>>)
        ELSE /\ pc' = "Search"
             /\ io' = Effects(PyStr(partid), <<Request(searcher, partid)>>, <<>>, <<>>)
             /\ UNCHANGED <<searcher, parts, sel, part, count, exc>>
    /\ UNCHANGED <<environ, args, db, lastSaved, pureVars>>

\* l.140-157 and l.169-173: the response arrives; parse and go where the
\* number of parts leads, up to the next prompt
SearchResponse ==
    /\ pc = "Search"
    /\ \E resp \in Responses :
        LET pr == PartParser_instantiate(args.api, environ)
        IN  IF pr.raised
            THEN /\ Exit(pr.exc)
                 /\ io' = NoEffects
            ELSE LET ps   == Parse(resp)
                     next == Dispatch(Len(ps))
                     said == CASE next = "Prompt" -> <<Msg("Found no parts", None)>>
                               [] next = "Count" ->
                                    <<Msg("Selected part", to_string(ps[1], None))>>
                               [] OTHER -> <<Msg("Found multiple parts", None)>> \o Listing(ps)
                 IN  /\ pc' = next
                     /\ parts' = ps
                     /\ part' = IF next = "Count" THEN ps[1] ELSE NoPart
                     /\ sel' = 0
                     /\ count' = 0
                     /\ io' = Effects(None, <<>>, <<>>, said)
                     /\ UNCHANGED <<searcher, exc>>
    /\ UNCHANGED <<environ, args, db, lastSaved, pureVars>>

\* l.156-173: a line at 'Select part to add', up to the next prompt
SelectInput ==
    /\ pc = "Select"
    /\ \E which \in SelectLines :
        IF which = StrQ
        THEN /\ pc' = "Prompt"
             /\ LocalsUnassigned
             /\ io' = Effects(PyStr(which), <<>>, <<>>, <<>>)
        ELSE LET r      == PyIntParse(which)
                 newsel == IF r.raised THEN sel ELSE r.value
                 err    == IF r.raised THEN <<Msg("Selection error", None)>> ELSE <<>>
             IN  IF SelRejected(newsel, Len(parts))
                 THEN /\ pc' = "Select"
                      /\ sel' = newsel
                      /\ io' = Effects(PyStr(which), <<>>, <<>>, err)
                      /\ UNCHANGED <<parts, part, count>>
                 ELSE LET chosen == PyIndex(parts, newsel - 1)
                      IN  /\ pc' = "Count"
                          /\ sel' = newsel
                          /\ part' = chosen
                          /\ count' = 0
                          /\ io' = Effects(PyStr(which), <<>>, <<>>,
                                   err \o <<Msg("Selected part", to_string(chosen, None))>>)
                          /\ UNCHANGED parts
    /\ UNCHANGED <<searcher, exc, environ, args, db, lastSaved, pureVars>>

\* l.180-183 and back to l.137: set the count, save, report
SaveAndReport(line, c) ==
    LET p == SetCount(part, c)
    IN  /\ db' = Save(db, p)
        /\ lastSaved' = Remember(lastSaved, p)
        /\ io' = Effects(PyStr(line), <<>>, <<OpenForWrite(db, default_filename(p))>>,
                         <<Msg("Written part to", default_filename(p))>>)
        /\ pc' = "Prompt"
        /\ LocalsUnassigned
        /\ UNCHANGED <<searcher, exc>>

\* l.171-183: a line at 'Count', up to the next prompt
CountInput ==
    /\ pc = "Count"
    /\ \E line \in CountLines :
        IF line = StrQ
        THEN \* count = None; break; then l.180-183 run all the same
             SaveAndReport(line, None)
        ELSE LET r == PyIntParse(line)
             IN  IF r.raised
                 THEN \* the handler's print reads `e`, which is unbound
                      /\ Exit("UnboundLocalError")
                      /\ io' = Effects(PyStr(line), <<>>, <<>>, <<>>)
                      /\ UNCHANGED <<db, lastSaved>>
                 ELSE IF CountRejected(r.value)
                 THEN /\ pc' = "Count"
                      /\ count' = r.value
                      /\ io' = Effects(PyStr(line), <<>>, <<>>, <<>>)
                      /\ UNCHANGED <<searcher, parts, sel, part, exc, db, lastSaved>>
                 ELSE SaveAndReport(line, PyInt(r.value))
    /\ UNCHANGED <<environ, args, pureVars>>

Next ==
    \/ RunLookup
    \/ LookupResponse
    \/ LookupList
    \/ LookupInsert
    \/ RunInventory
    \/ PromptInput
    \/ SearchResponse
    \/ SelectInput
    \/ CountInput

Spec == Init /\ [][Next]_vars

--------------------------------------------------------------------------
(* default_filename on its own: the part number is drawn, then Part(...)   *)
(* is built and asked for its file name                                    *)

\* 'A' 'z' '0' '-' '_' '.' '(' ')' ' ' '/' '*' e-acute superscript-2 multiplication-sign
NameChars == {65, 122, 48, 45, 95, 46, 40, 41, 32, 47, 42, 233, 178, 215}

PartNumbers == SeqsUpTo(NameChars, MaxNameLen)

InitSanitize ==
    /\ InitFlow
    /\ sanIn \in PartNumbers
    /\ sanOut = Pending
    /\ parseIn = Response(<<>>)
    /\ parseOut = Pending

DeriveFilename ==
    /\ sanOut = Pending
    /\ sanOut' = Return(default_filename(NewPart(sanIn)))
    /\ UNCHANGED <<flowVars, sanIn, parseIn, parseOut>>

SpecSanitize == InitSanitize /\ [][DeriveFilename]_vars

--------------------------------------------------------------------------
(* MouserPartParser.parse on its own: the response is drawn, then parsed   *)

FieldValues(s) == {None, PyStr(""), PyStr(s)}

\* Category, Manufacturer, Description, ProductDetailUrl of an entry
OtherFields ==
    {[c |-> PyStr("Resistors"), m |-> PyStr("Yageo"), d |-> PyStr("10k"), u |-> PyStr("http://p")],
     [c |-> None, m |-> PyStr(""), d |-> None, u |-> PyStr("")],
     [c |-> PyStr(""), m |-> None, d |-> PyStr(""), u |-> None]}

ParserEntries ==
    {JPart(pn, o.c, o.m, o.d, img, ds, o.u) :
        pn \in {<<65, 47, 49>>, <<66>>},
        o \in OtherFields,
        img \in FieldValues("http://img"),
        ds \in FieldValues("http://ds")}

ParserResponses == {Response(js) : js \in SeqsUpTo(ParserEntries, MaxRespLen)}

InitParse ==
    /\ InitFlow
    /\ sanIn = <<>>
    /\ sanOut = Pending
    /\ parseIn \in ParserResponses
    /\ parseOut = Pending

ParseResponse ==
    /\ parseOut = Pending
    /\ parseOut' = Return(Parse(parseIn))
    /\ UNCHANGED <<flowVars, sanIn, sanOut, parseIn>>

SpecParse == InitParse /\ [][ParseResponse]_vars

--------------------------------------------------------------------------
(* Properties *)

Range(f) == {f[i] : i \in DOMAIN f}

\* the line the step read is the text `line`
Typed(line) == io'.line = PyStr(line)

\* the step opened no file for writing and left every file as it was
WroteNothing == io'.writes = <<>> /\ db' = db

\* the member named k of a JSON object written by save
Member(text, k) == (CHOOSE m \in Range(text) : m[1] = k)[2]

\* the text of a file holds exactly the fields of Part p
HoldsFieldsOf(text, p) ==
    /\ Len(text) = 8
    /\ Member(text, "partNum") = PyStr(p.partNum)
    /\ Member(text, "category") = p.category
    /\ Member(text, "manufacturer") = p.manufacturer
    /\ Member(text, "description") = p.description
    /\ Member(text, "imageUrl") = p.imageUrl
    /\ Member(text, "datasheetUrl") = p.datasheetUrl
    /\ Member(text, "productUrl") = p.productUrl
    /\ Member(text, "count") = p.count

\* the characters the claim's class names: [A-Za-z0-9] and - _ . ( ) space
AsciiAllowed(c) ==
    c \in (48..57) \cup (65..90) \cup (97..122) \cup {45, 95, 46, 40, 41, 32}

\* the characters the code lets through: str.isalnum() or one of - _ . ( ) space
AlnumAllowed(c) == IsAlnum(c) \/ c \in {45, 95, 46, 40, 41, 32}

\* out is the subsequence of s at the positions in P, in their order
IsSubsequenceAt(s, P, out) ==
    /\ Len(out) = Cardinality(P)
    /\ \A k \in 1..Len(out) :
         out[k] = s[CHOOSE i \in P : Cardinality({j \in P : j < i}) = k - 1]

\* the typed line is an integer, and its value
IsInteger(line) == ~PyIntParse(line).raised

IntegerOf(line) == PyIntParse(line).value

\* C1: a 'q' at the count prompt returns to Prompt and saves nothing.
C1_QuitAtCountSavesNothing ==
    [][(pc = "Count" /\ Typed(StrQ)) => (pc' = "Prompt" /\ WroteNothing)]_vars

\* C2: a count of 0, a negative count or non-numeric text (other than 'q')
\* keeps the flow at the count prompt: the session goes on and nothing is
\* saved.
C2_BadCountReprompts ==
    [][(/\ pc = "Count"
        /\ ~Typed(StrQ)
        /\ (~IsInteger(io'.line.v) \/ IntegerOf(io'.line.v) <= 0))
       => (pc' = "Count" /\ exc' = "none" /\ part' = part /\ WroteNothing)]_vars

\* C3: a positive integer n at the count prompt, whatever was typed before,
\* sets the part's count to n, saves the part once at its default path with
\* count n and returns to Prompt.
C3_PositiveCountSavesOnce ==
    [][(/\ pc = "Count"
        /\ ~Typed(StrQ)
        /\ IsInteger(io'.line.v)
        /\ IntegerOf(io'.line.v) >= 1)
       => LET n == IntegerOf(io'.line.v)
              f == default_filename(part)
              p == [part EXCEPT !.count = PyInt(n)]
          IN  /\ pc' = "Prompt"
              /\ exc' = "none"
              /\ Len(io'.writes) = 1
              /\ io'.writes[1].path = f
              /\ f \in DOMAIN db'
              /\ HoldsFieldsOf(db'[f], p)
              /\ lastSaved'[f] = p]_vars

C3_Witness ==
    /\ pc = "Prompt"
    /\ io.line = PyStr(<<50>>)
    /\ Len(io.writes) = 1
    /\ Member(db[io.writes[1].path], "count") = PyInt(2)

\* C4: with N > 1 results the selection prompt is left only by an integer k
\* in 1..N, which selects the k-th part, or by 'q', which returns to Prompt;
\* any other line, after any earlier lines, keeps the prompt, selects no
\* part and writes no file.
C4_Disambiguate ==
    [][pc = "Select"
       => LET line == io'.line.v
              N    == Len(parts)
          IN  /\ N > 1
              /\ WroteNothing
              /\ exc' = "none"
              /\ IF line = StrQ
                 THEN pc' = "Prompt"
                 ELSE IF IsInteger(line) /\ IntegerOf(line) \in 1..N
                 THEN pc' = "Count" /\ part' = parts[IntegerOf(line)]
                 ELSE pc' = "Select" /\ part' = NoPart /\ parts' = parts]_vars

C4_Witness ==
    /\ pc = "Count"
    /\ io.line = PyStr(<<50>>)
    /\ Len(parts) = 2
    /\ parts[1] # parts[2]
    /\ part = parts[2]

\* C5: lookup writes a file exactly when insert was asked for and one part
\* was parsed, and then one file, at that part's default path; with insert
\* and no part it says there is nothing to insert, with insert and several
\* parts it says it refuses, and without insert it writes nothing.
C5_LookupInsert ==
    [][/\ (pc = "shell" /\ args'.command = "lookup") => WroteNothing
       /\ pc \in {"LookupSearch", "LookupList"} => WroteNothing
       /\ pc = "LookupInsert" =>
            LET n == Len(parts)
            IN  /\ Len(io'.writes) = (IF args.insert /\ n = 1 THEN 1 ELSE 0)
                /\ (args.insert /\ n = 1) =>
                       /\ io'.writes[1].path = default_filename(parts[1])
                       /\ HoldsFieldsOf(db'[default_filename(parts[1])], parts[1])
                       /\ \A f \in DOMAIN db' \ {default_filename(parts[1])} :
                              f \in DOMAIN db /\ db'[f] = db[f]
                /\ ~(args.insert /\ n = 1) => db' = db
                /\ (args.insert /\ n = 0) =>
                       io'.printed = <<Msg("No parts were found, nothing to insert", None)>>
                /\ (args.insert /\ n > 1) =>
                       io'.printed = <<Msg("Refusing to insert more than one part", None)>>]_vars

C5_Witness ==
    /\ pc = "shell"
    /\ args.command = "lookup"
    /\ args.insert
    /\ Len(io.writes) = 1
    /\ io.writes[1].path \in DOMAIN db
    /\ Member(db[io.writes[1].path], "count") = PyInt(0)

\* the provider name is 'mouser' in some mix of upper and lower case
NamesMouser(a) ==
    /\ Len(a) = Len(StrMouser)
    /\ \A i \in 1..Len(a) : a[i] = StrMouser[i] \/ a[i] = StrMouser[i] - 32

\* C6: without MOUSER_API_KEY, or with a provider that is not 'mouser' in
\* any case, lookup and inventory end before any I/O: no PartSearch
\* instance, no request, no prompt read, no file written.
C6_ConfigErrorBeforeIO ==
    [][(/\ pc = "shell"
        /\ ("MOUSER_API_KEY" \notin DOMAIN environ' \/ ~NamesMouser(args'.api)))
       => /\ pc' = "shell"
          /\ searcher' = NoInstance
          /\ io'.requests = <<>>
          /\ io'.line = None
          /\ WroteNothing
          /\ exc' # "none"]_vars

C6_Witness ==
    /\ pc = "shell"
    /\ args.command = "inventory"
    /\ NamesMouser(args.api)
    /\ environ = EnvNoKey
    /\ exc = "RuntimeError: Mouser API key not provided"

\* C7 as stated: the stem of the file name holds only characters of
\* [A-Za-z0-9-_.() ], is the subsequence of the part number's characters of
\* that class, and is not empty when the part number has such a character.
C7_AsciiOnly ==
    sanOut # Pending =>
        LET stem == sanOut.value.stem
            P    == {i \in 1..Len(sanIn) : AsciiAllowed(sanIn[i])}
        IN  /\ \A k \in 1..Len(stem) : AsciiAllowed(stem[k])
            /\ IsSubsequenceAt(sanIn, P, stem)
            /\ (P # {} => stem # <<>>)

\* C7 amended: the stem holds only characters that are alphanumeric (as
\* str.isalnum has it, so also letters and digits outside ASCII) or one of
\* - _ . ( ) space, is the subsequence of the part number's characters of
\* that kind, and is not empty when the part number has such a character.
C7_AlnumOnly ==
    sanOut # Pending =>
        LET stem == sanOut.value.stem
            P    == {i \in 1..Len(sanIn) : AlnumAllowed(sanIn[i])}
        IN  /\ \A k \in 1..Len(stem) : AlnumAllowed(stem[k])
            /\ IsSubsequenceAt(sanIn, P, stem)
            /\ (P # {} => stem # <<>>)
            /\ sanOut.value.dir = ".database/"
            /\ sanOut.value.ext = ".json"

C7_Witness ==
    /\ sanOut # Pending
    /\ sanIn = <<65, 47, 233>>
    /\ sanOut.value.stem = <<65, 233>>

\* the claim's rule for a field: the source value when truthy, else the default
SourceOrDefault(src, dflt) == IF src = None \/ src = PyStr("") THEN dflt ELSE src

\* C8: the parser returns one Part per entry of Parts, in order; the i-th
\* has the entry's ManufacturerPartNumber and count 0, and each other field
\* is the source field when truthy, else that field's own default.
C8_ParsedParts ==
    parseOut # Pending =>
        LET src == parseIn.SearchResults.Parts
            out == parseOut.value
        IN  /\ Len(out) = Len(src)
            /\ \A i \in 1..Len(src) :
                 /\ out[i].partNum = src[i].ManufacturerPartNumber
                 /\ out[i].count = PyInt(0)
                 /\ out[i].category = SourceOrDefault(src[i].Category, PyStr("uncategorized"))
                 /\ out[i].manufacturer = SourceOrDefault(src[i].Manufacturer, PyStr("unknown"))
                 /\ out[i].description = SourceOrDefault(src[i].Description, None)
                 /\ out[i].imageUrl = SourceOrDefault(src[i].ImagePath, None)
                 /\ out[i].datasheetUrl = SourceOrDefault(src[i].DataSheetUrl, None)
                 /\ out[i].productUrl = SourceOrDefault(src[i].ProductDetailUrl, None)

C8_Witness ==
    /\ parseOut # Pending
    /\ Len(parseOut.value) = 2
    /\ parseOut.value[1].partNum # parseOut.value[2].partNum
    /\ parseIn.SearchResults.Parts[1].ImagePath = PyStr("")
    /\ parseIn.SearchResults.Parts[1].DataSheetUrl = PyStr("http://ds")
    /\ parseOut.value[1].imageUrl = None
    /\ parseOut.value[1].datasheetUrl = PyStr("http://ds")

\* C9: 'q' at the top prompt ends the session with no search and no save;
\* any other line is searched for once, and the parsed parts alone decide
\* what follows: none, back to Prompt; one, straight to its count prompt;
\* several, the selection prompt.
C9_PromptThenSearch ==
    [][/\ pc = "Prompt" =>
            /\ WroteNothing
            /\ IF Typed(StrQ)
               THEN pc' = "shell" /\ exc' = "none" /\ io'.requests = <<>>
               ELSE /\ pc' = "Search"
                    /\ Len(io'.requests) = 1
                    /\ PyStr(io'.requests[1].keyword) = io'.line
       /\ pc = "Search" =>
            /\ WroteNothing
            /\ io'.requests = <<>>
            /\ io'.line = None
            /\ IF Len(parts') = 0 THEN pc' = "Prompt" /\ part' = NoPart
               ELSE IF Len(parts') = 1 THEN pc' = "Count" /\ part' = parts'[1]
               ELSE pc' = "Select" /\ part' = NoPart]_vars

C9_Witness ==
    /\ pc = "Count"
    /\ io.line = None
    /\ Len(parts) = 1
    /\ part = parts[1]

\* every file is at the default path of the Part last saved there and holds
\* exactly that Part's fields
DbHoldsLastSaved ==
    /\ DOMAIN db = DOMAIN lastSaved
    /\ \A f \in DOMAIN db :
         /\ f = default_filename(lastSaved[f])
         /\ HoldsFieldsOf(db[f], lastSaved[f])

\* a step changes at most the one file it opened, and removes none
DbFrame ==
    /\ Len(io'.writes) <= 1
    /\ DOMAIN db \subseteq DOMAIN db'
    /\ \A f \in DOMAIN db' :
         \/ f \in DOMAIN db /\ db'[f] = db[f]
         \/ f \in {w.path : w \in Range(io'.writes)}

\* C10: the database holds one file per path, each with exactly the fields
\* of the Part last saved to that path; a save changes only the file at the
\* saved part's default path, and no step removes a file.
C10_Database == []DbHoldsLastSaved /\ [][DbFrame]_vars

C10_Witness ==
    /\ Cardinality(DOMAIN db) = 2
    /\ Len(io.writes) = 1
    /\ io.writes[1].truncated
    /\ io.writes[1].path = default_filename(NewPart(<<65, 49>>))
    /\ Member(db[io.writes[1].path], "partNum") = PyStr(<<65, 49>>)
    /\ Member(db[io.writes[1].path], "count") = PyInt(1)

==========================================================================
